---- MODULE Spec2Model ----
(***************************************************************************)
(* A model of sekai/lib/converter.py: the conversion of a flat list of     *)
(* raw chart entities (archetype + data mapping) into the ordered, linked  *)
(* list of play entities.                                                  *)
(*                                                                         *)
(* Raw entities are records [archetype, data] where data is a function     *)
(* whose DOMAIN is the set of keys present in the Python dict, so that     *)
(* data["k"] (KeyError when absent) and data.get("k", d) are modelled by   *)
(* what they do.  Positions in the raw list are 0-based as in Python:      *)
(* the entity at position i is raw[i + 1].                                 *)
(*                                                                         *)
(* Constructed play entities live in the arena objs; an entity reference   *)
(* (x.ref()) is the entity's position in objs, and 0 is the unset          *)
(* reference a field holds when the constructor was not given a value.     *)
(* An entity record has exactly the fields its class is constructed with   *)
(* or later assigned, so getattr(e, "beat", -1) is a test on its DOMAIN.   *)
(***************************************************************************)
EXTENDS Integers, Sequences, FiniteSets, TLC

VARIABLES
  raw,                          \* data.entities, the input
  pc,                           \* position in convert_pjsekai_extended_level_data
  objs,                         \* arena of the play entities constructed so far
  bpm_changes,                  \* convert_bpm_changes' result
  groups_by_original_index,     \* convert_timescale_groups: raw index -> group
  timescale_entities,           \* convert_timescale_groups: emitted entities
  ts_i, group, changes, raw_change,  \* convert_timescale_groups' loop state
  notes,                        \* convert_notes' entities list
  notes_by_original_index,      \* convert_notes: raw index -> note
  connectors_by_original_index, \* convert_notes: raw index -> connector
  conn_i,                       \* convert_notes: position in the connector loop
  guides,                       \* convert_guides' entities list
  anchors_by_beat,              \* convert_guides: beat -> list of anchors
  guide_i, start, end, head,    \* convert_guides' loop state
  entities                      \* the merged (then sorted, then linked) output

vars == <<raw, pc, objs, bpm_changes, groups_by_original_index,
          timescale_entities, ts_i, group, changes, raw_change, notes,
          notes_by_original_index, connectors_by_original_index, conn_i,
          guides, anchors_by_beat, guide_i, start, end, head, entities>>

(***************************************************************************)
(* Bounds of the model.                                                    *)
(***************************************************************************)
MaxTsEntities == 3    \* longest raw list of the timescale input family
MaxConnectors == 2    \* most active connectors of the note input family
MaxGuides == 2        \* most guides of the guide input family

(***************************************************************************)
(* Python helpers.                                                         *)
(***************************************************************************)
\* dict.get(k, dflt)
Get(d, k, dflt) == IF k \in DOMAIN d THEN d[k] ELSE dflt

\* list[idx] of a list of length n: does it raise IndexError?
InRange(idx, n) == -n <= idx /\ idx < n

\* list[idx]: the 0-based position read (a negative idx counts from the end)
ListPos(idx, n) == IF idx >= 0 THEN idx ELSE n + idx

\* a dict built so far, as a function on the keys inserted
EmptyDict == [k \in {} |-> 0]

DictPut(d, k, v) == [x \in DOMAIN d \cup {k} |-> IF x = k THEN v ELSE d[x]]

\* the 0-based positions, from k - 1 on, of the entities of s whose archetype
\* is in archs, in order
RECURSIVE SelectIdx(_, _, _)
SelectIdx(s, k, archs) ==
  IF k > Len(s) THEN <<>>
  ELSE (IF s[k].archetype \in archs THEN <<k - 1>> ELSE <<>>)
       \o SelectIdx(s, k + 1, archs)

(***************************************************************************)
(* The fixed tables.                                                       *)
(***************************************************************************)
note_type_mapping ==
  [a \in {"NormalTapNote", "CriticalTapNote", "NormalFlickNote",
          "CriticalFlickNote", "NormalSlideStartNote",
          "CriticalSlideStartNote", "NormalSlideEndNote",
          "CriticalSlideEndNote", "NormalSlideEndFlickNote",
          "CriticalSlideEndFlickNote", "IgnoredSlideTickNote",
          "NormalSlideTickNote", "CriticalSlideTickNote",
          "HiddenSlideTickNote", "NormalAttachedSlideTickNote",
          "CriticalAttachedSlideTickNote", "NormalTraceNote",
          "CriticalTraceNote", "DamageNote", "NormalTraceFlickNote",
          "CriticalTraceFlickNote", "NonDirectionalTraceFlickNote",
          "HiddenSlideStartNote", "NormalTraceSlideStartNote",
          "CriticalTraceSlideStartNote", "NormalTraceSlideEndNote",
          "CriticalTraceSlideEndNote"} |->
     CASE a = "NormalSlideStartNote" -> "NormalHeadTapNote"
       [] a = "CriticalSlideStartNote" -> "CriticalHeadTapNote"
       [] a = "NormalSlideEndNote" -> "NormalTailReleaseNote"
       [] a = "CriticalSlideEndNote" -> "CriticalTailReleaseNote"
       [] a = "NormalSlideEndFlickNote" -> "NormalTailFlickNote"
       [] a = "CriticalSlideEndFlickNote" -> "CriticalTailFlickNote"
       [] a = "IgnoredSlideTickNote" -> "TransientHiddenTickNote"
       [] a = "NormalSlideTickNote" -> "NormalTickNote"
       [] a = "CriticalSlideTickNote" -> "CriticalTickNote"
       [] a = "HiddenSlideTickNote" -> "AnchorNote"
       [] a = "NormalAttachedSlideTickNote" -> "NormalTickNote"
       [] a = "CriticalAttachedSlideTickNote" -> "CriticalTickNote"
       [] a = "NonDirectionalTraceFlickNote" -> "NormalTraceFlickNote"
       [] a = "HiddenSlideStartNote" -> "AnchorNote"
       [] a = "NormalTraceSlideStartNote" -> "NormalHeadTraceNote"
       [] a = "CriticalTraceSlideStartNote" -> "CriticalHeadTraceNote"
       [] a = "NormalTraceSlideEndNote" -> "NormalTailTraceNote"
       [] a = "CriticalTraceSlideEndNote" -> "CriticalTailTraceNote"
       [] OTHER -> a]

\* ConnectorKind, EaseType and FlickDirection are defined outside this file.
\* Their members are written as distinct integers, none of them the sentinel
\* -1 that get_anchor uses: ConnectorKind.ACTIVE_NORMAL = 1,
\* ACTIVE_CRITICAL = 2, GUIDE_NEUTRAL = 101 ... GUIDE_BLACK = 108.
active_connector_kind_mapping ==
  [a \in {"NormalSlideConnector", "CriticalSlideConnector"} |->
     IF a = "NormalSlideConnector" THEN 1 ELSE 2]

\* FlickDirection: UP_OMNI = 0, UP_LEFT = 1, UP_RIGHT = 2
flick_direction_mapping ==
  [c \in {-1, 0, 1} |-> CASE c = -1 -> 1 [] c = 0 -> 0 [] c = 1 -> 2]

\* EaseType: LINEAR = 1, IN_QUAD = 2, OUT_QUAD = 3, IN_OUT_QUAD = 4,
\* OUT_IN_QUAD = 5
ease_type_mapping ==
  [c \in -2..2 |-> CASE c = -2 -> 5 [] c = -1 -> 3 [] c = 0 -> 1
                     [] c = 1 -> 2 [] c = 2 -> 4]

\* (start alpha, end alpha)
fade_alpha_mapping ==
  [c \in 0..2 |-> CASE c = 0 -> <<1, 0>> [] c = 1 -> <<1, 1>>
                    [] c = 2 -> <<0, 1>>]

guide_kind_mapping == [c \in 0..7 |-> 101 + c]

(***************************************************************************)
(* PJSekaiExtendedLevelData: the indexed views of the raw list, each a     *)
(* sequence of 0-based raw positions.                                      *)
(***************************************************************************)
enumerate_by_archetype(archetype) == SelectIdx(raw, 1, {archetype})

iter_note_archetypes == SelectIdx(raw, 1, DOMAIN note_type_mapping)

iter_active_connector_archetypes ==
  SelectIdx(raw, 1, DOMAIN active_connector_kind_mapping)

(***************************************************************************)
(* The inputs: raw entities of the interchange schema, and three bounded   *)
(* families of raw lists.                                                  *)
(***************************************************************************)
RawGroup(first) ==
  [archetype |-> "TimeScaleGroup", data |-> ("first" :> first)]

\* next = 0 stands for a record that has no "next" key
RawChange(beat, next) ==
  [archetype |-> "TimeScaleChange",
   data |-> IF next = 0 THEN ("#BEAT" :> beat @@ "timeScale" :> 1)
            ELSE ("#BEAT" :> beat @@ "timeScale" :> 1 @@ "next" :> next)]

RawBpm(beat) ==
  [archetype |-> "#BPM_CHANGE", data |-> ("#BEAT" :> beat @@ "#BPM" :> 120)]

\* attach, slide = 0 stand for a note that has no such key
RawNote(archetype, beat, attach, slide) ==
  [archetype |-> archetype,
   data |-> [k \in {"#BEAT", "lane"}
                    \cup (IF attach = 0 THEN {} ELSE {"attach"})
                    \cup (IF slide = 0 THEN {} ELSE {"slide"}) |->
               CASE k = "#BEAT" -> beat [] k = "lane" -> 0
                 [] k = "attach" -> attach [] k = "slide" -> slide]]

RawConnector(archetype, h, t, s, e) ==
  [archetype |-> archetype,
   data |-> ("head" :> h @@ "tail" :> t @@ "start" :> s @@ "end" :> e
             @@ "ease" :> 0)]

RawSimLine(a, b) == [archetype |-> "SimLine", data |-> ("a" :> a @@ "b" :> b)]

\* a control point: <<beat, lane, size>>
CtrlPoints == {<<2, 0, 1>>, <<2, 1, 1>>}

\* <<color, fade, ease>>; <<0, 1, 0>> is a guide that has none of the three keys
GuideStyles == {<<0, 1, 0>>, <<1, 0, 1>>, <<2, 2, 0>>}

RawGuide(s, h, t, e, tsg, style) ==
  [archetype |-> "Guide",
   data |-> [k \in {"startBeat", "startLane", "startSize",
                    "startTimeScaleGroup", "headBeat", "headLane", "headSize",
                    "headTimeScaleGroup", "tailBeat", "tailLane", "tailSize",
                    "tailTimeScaleGroup", "endBeat", "endLane", "endSize",
                    "endTimeScaleGroup"}
                    \cup (IF style = <<0, 1, 0>> THEN {}
                          ELSE {"color", "fade", "ease"}) |->
               CASE k = "startBeat" -> s[1] [] k = "startLane" -> s[2]
                 [] k = "startSize" -> s[3] [] k = "headBeat" -> h[1]
                 [] k = "headLane" -> h[2] [] k = "headSize" -> h[3]
                 [] k = "tailBeat" -> t[1] [] k = "tailLane" -> t[2]
                 [] k = "tailSize" -> t[3] [] k = "endBeat" -> e[1]
                 [] k = "endLane" -> e[2] [] k = "endSize" -> e[3]
                 [] k = "color" -> style[1] [] k = "fade" -> style[2]
                 [] k = "ease" -> style[3]
                 [] OTHER -> tsg]]

SeqsUpTo(S, n) == UNION {[1..k -> S] : k \in 0..n}

\* Timescale groups and change records whose first/next indices range over
\* the positions of the list, one position past it, and (first only) -1.
TsEntities ==
  {RawGroup(f) : f \in -1..MaxTsEntities}
  \cup {RawChange(b, n) : b \in {0, 1}, n \in 0..MaxTsEntities}

TimescaleInputs == SeqsUpTo(TsEntities, MaxTsEntities) \ {<<>>}

\* A BPM marker and three notes at positions 1..3, then active connectors
\* from position 4, then possibly a SimLine.  Position 4 and later hold no
\* note, so a tail of 4 names no note; the last note may name position 4 as
\* its attach or slide connector.
RawActiveConnectors ==
  {RawConnector(a, h, t, 1, 3) :
     a \in {"NormalSlideConnector", "CriticalSlideConnector"},
     h \in {1, 2}, t \in {2, 3, 4}}

SimLines == {<<>>} \cup {<<RawSimLine(1, b)>> : b \in {2, 4}}

NoteInputs ==
  {<<RawBpm(1), RawNote("NormalSlideStartNote", b1, 0, 0),
     RawNote("NormalSlideTickNote", b2, 0, 0),
     RawNote("NormalSlideEndNote", 1, at, sl)>> \o cs \o sim :
     b1 \in {-2, 1}, b2 \in {0, 1}, at \in {0, 4}, sl \in {0, 4},
     cs \in SeqsUpTo(RawActiveConnectors, MaxConnectors), sim \in SimLines}

Guides(tsg) ==
  {RawGuide(s, h, t, e, tsg, style) :
     s \in CtrlPoints, h \in CtrlPoints, t \in CtrlPoints, e \in CtrlPoints,
     style \in GuideStyles}

\* One timescale group (position 0) with its change record, then guides on
\* that group; or a single guide on group -1 in a list that has no group.
GuideInputs ==
  {<<RawGroup(1), RawChange(0, 0)>> \o gs :
     gs \in SeqsUpTo(Guides(0), MaxGuides) \ {<<>>}}
  \cup {<<g>> : g \in Guides(-1)}

Init ==
  /\ \/ raw \in TimescaleInputs
     \/ raw \in NoteInputs
     \/ raw \in GuideInputs
  /\ pc = "bpm"
  /\ objs = <<>>
  /\ bpm_changes = <<>>
  /\ groups_by_original_index = EmptyDict
  /\ timescale_entities = <<>>
  /\ ts_i = 0
  /\ group = 0
  /\ changes = <<>>
  /\ raw_change = 0
  /\ notes = <<>>
  /\ notes_by_original_index = EmptyDict
  /\ connectors_by_original_index = EmptyDict
  /\ conn_i = 0
  /\ guides = <<>>
  /\ anchors_by_beat = EmptyDict
  /\ guide_i = 0
  /\ start = 0
  /\ end = 0
  /\ head = 0
  /\ entities = <<>>

(***************************************************************************)
(* convert_bpm_changes (the first builder the orchestrator calls).         *)
(***************************************************************************)
BpmChange(entity) ==
  [type |-> "BpmChange", beat |-> entity.data["#BEAT"],
   bpm |-> entity.data["#BPM"]]

convert_bpm_changes ==
  /\ pc = "bpm"
  /\ LET idx == enumerate_by_archetype("#BPM_CHANGE")
         new == [k \in 1..Len(idx) |-> BpmChange(raw[idx[k] + 1])]
     IN /\ objs' = objs \o new
        /\ bpm_changes' = [k \in 1..Len(idx) |-> Len(objs) + k]
  /\ pc' = "ts"
  /\ UNCHANGED <<raw, groups_by_original_index, timescale_entities, ts_i,
                 group, changes, raw_change, notes, notes_by_original_index,
                 connectors_by_original_index, conn_i, guides,
                 anchors_by_beat, guide_i, start, end, head, entities>>

(***************************************************************************)
(* convert_timescale_groups.  TsBeginGroup is the head of the for loop up  *)
(* to raw_change = data[first]; TsStep is one iteration of the while loop  *)
(* and, when it breaks, the rest of the for body; TsDone is the return.    *)
(***************************************************************************)
TimescaleGroup == [type |-> "TimescaleGroup", first_ref |-> 0]

TimescaleChange(raw_entity, group_ref) ==
  [type |-> "TimescaleChange", beat |-> raw_entity.data["#BEAT"],
   timescale |-> raw_entity.data["timeScale"], timescale_skip |-> 0,
   timescale_group |-> group_ref, timescale_ease |-> "NONE", next_ref |-> 0]

\* if changes: changes[-1].next_ref = change.ref()
LinkChange(os, chs, ref) ==
  IF chs # <<>> THEN [os EXCEPT ![chs[Len(chs)]].next_ref = ref] ELSE os

\* faulty variant: group.first_ref = changes[-1].ref()
SetFirstToLast(os, g, chs) ==
  IF chs # <<>> THEN [os EXCEPT ![g].first_ref = chs[Len(chs)]] ELSE os

\* if changes: group.first_ref = changes[0].ref()
SetFirst(os, g, chs) ==
  IF chs # <<>> THEN [os EXCEPT ![g].first_ref = chs[1]] ELSE os

\* the walk may not go on: past this many changes the model stops following
\* a chain (the code has no such limit)
WalkCap == Len(raw) + 1

TsGroups == enumerate_by_archetype("TimeScaleGroup")

TsBeginGroup ==
  /\ pc = "ts"
  /\ ts_i < Len(TsGroups)
  /\ LET entity == raw[TsGroups[ts_i + 1] + 1]
     IN IF "first" \in DOMAIN entity.data
           /\ InRange(entity.data["first"], Len(raw))
        THEN /\ objs' = Append(objs, TimescaleGroup)
             /\ group' = Len(objs) + 1
             /\ changes' = <<>>
             /\ raw_change' = ListPos(entity.data["first"], Len(raw))
             /\ pc' = "ts_walk"
        ELSE /\ pc' = "raised"
             /\ UNCHANGED <<objs, group, changes, raw_change>>
  /\ UNCHANGED <<raw, bpm_changes, groups_by_original_index,
                 timescale_entities, ts_i, notes, notes_by_original_index,
                 connectors_by_original_index, conn_i, guides,
                 anchors_by_beat, guide_i, start, end, head, entities>>

TsStep ==
  /\ pc = "ts_walk"
  /\ Len(changes) < WalkCap
  /\ LET rc == raw[raw_change + 1]
         ref == Len(objs) + 1
         chs == Append(changes, ref)
         nxt == Get(rc.data, "next", 0)
     IN IF ~ {"#BEAT", "timeScale"} \subseteq DOMAIN rc.data
        THEN /\ pc' = "raised"
             /\ UNCHANGED <<objs, changes, raw_change, ts_i,
                            groups_by_original_index, timescale_entities>>
        ELSE LET os == LinkChange(Append(objs, TimescaleChange(rc, group)),
                                  changes, ref)
             IN IF nxt <= 0
                THEN /\ objs' = SetFirst(os, group, chs)
                     /\ groups_by_original_index' =
                          DictPut(groups_by_original_index,
                                  TsGroups[ts_i + 1], group)
                     /\ timescale_entities' =
                          timescale_entities \o <<group>> \o chs
                     /\ changes' = chs
                     /\ ts_i' = ts_i + 1
                     /\ pc' = "ts"
                     /\ UNCHANGED raw_change
                ELSE /\ objs' = os
                     /\ changes' = chs
                     /\ IF InRange(nxt, Len(raw))
                        THEN raw_change' = nxt /\ pc' = "ts_walk"
                        ELSE pc' = "raised" /\ UNCHANGED raw_change
                     /\ UNCHANGED <<ts_i, groups_by_original_index,
                                    timescale_entities>>
  /\ UNCHANGED <<raw, bpm_changes, group, notes, notes_by_original_index,
                 connectors_by_original_index, conn_i, guides,
                 anchors_by_beat, guide_i, start, end, head, entities>>

TsDone ==
  /\ pc = "ts"
  /\ ts_i = Len(TsGroups)
  /\ pc' = "notes"
  /\ UNCHANGED <<raw, objs, bpm_changes, groups_by_original_index,
                 timescale_entities, ts_i, group, changes, raw_change, notes,
                 notes_by_original_index, connectors_by_original_index,
                 conn_i, guides, anchors_by_beat, guide_i, start, end, head,
                 entities>>

(***************************************************************************)
(* convert_notes.  NotesPass1 is the first loop (one note per note         *)
(* archetype entity), NotesConnector one iteration of the second loop,     *)
(* NotesResolve the third loop, the SimLine loop and the return.           *)
(***************************************************************************)
\* note_class(beat=, lane=, size=, direction=, segment_kind=ACTIVE_NORMAL);
\* the fields the constructor is not given hold the class's defaults, which
\* are set outside this file and written 0 (FALSE for is_attached)
Note(entity) ==
  [type |-> note_type_mapping[entity.archetype],
   beat |-> entity.data["#BEAT"],
   lane |-> Get(entity.data, "lane", 0),
   size |-> Get(entity.data, "size", 0),
   direction |-> flick_direction_mapping[Get(entity.data, "direction", 0)],
   segment_kind |-> active_connector_kind_mapping["NormalSlideConnector"],
   segment_alpha |-> 0, connector_ease |-> 0, timescale_group |-> 0,
   attach_head_ref |-> 0, attach_tail_ref |-> 0, is_attached |-> FALSE,
   active_head_ref |-> 0, next_ref |-> 0]

NoteRaises(entity) ==
  \/ "#BEAT" \notin DOMAIN entity.data
  \/ Get(entity.data, "direction", 0) \notin DOMAIN flick_direction_mapping

NotesPass1 ==
  /\ pc = "notes"
  /\ LET idx == iter_note_archetypes
     IN IF \E k \in 1..Len(idx) : NoteRaises(raw[idx[k] + 1])
        THEN /\ pc' = "raised"
             /\ UNCHANGED <<objs, notes, notes_by_original_index>>
        ELSE /\ objs' = objs \o [k \in 1..Len(idx) |-> Note(raw[idx[k] + 1])]
             /\ notes' = [k \in 1..Len(idx) |-> Len(objs) + k]
             /\ notes_by_original_index' =
                  [i \in {idx[k] : k \in 1..Len(idx)} |->
                     Len(objs) + CHOOSE k \in 1..Len(idx) : idx[k] = i]
             /\ pc' = "notes_conn"
  /\ UNCHANGED <<raw, bpm_changes, groups_by_original_index,
                 timescale_entities, ts_i, group, changes, raw_change,
                 connectors_by_original_index, conn_i, guides,
                 anchors_by_beat, guide_i, start, end, head, entities>>

\* Connector(head_ref=, tail_ref=, segment_head_ref=, segment_tail_ref=,
\*           active_head_ref=, active_tail_ref=)
Connector(h, t, sh, st, ah, at) ==
  [type |-> "Connector", head_ref |-> h, tail_ref |-> t,
   segment_head_ref |-> sh, segment_tail_ref |-> st,
   active_head_ref |-> ah, active_tail_ref |-> at]

\* notes_by_original_index[entity.data[k]] raises KeyError
NoteRefRaises(entity, k) ==
  \/ k \notin DOMAIN entity.data
  \/ entity.data[k] \notin DOMAIN notes_by_original_index

\* lines 240-247: the connector's ease and kind written onto its notes
MarkConnectorNotes(os, h, t, sh, ease, kind) ==
  LET o1 == [os EXCEPT ![h].connector_ease = ease]
      o2 == [o1 EXCEPT ![h].segment_kind = kind]
      o3 == [o2 EXCEPT ![t].segment_kind = kind]
  IN [o3 EXCEPT ![sh].segment_kind = kind]

ActiveConnectorIdx == iter_active_connector_archetypes

NotesConnector ==
  /\ pc = "notes_conn"
  /\ conn_i < Len(ActiveConnectorIdx)
  /\ LET i == ActiveConnectorIdx[conn_i + 1]
         entity == raw[i + 1]
     IN IF \/ \E k \in {"head", "tail", "start", "end"} :
                 NoteRefRaises(entity, k)
           \/ "ease" \notin DOMAIN entity.data
           \/ entity.data["ease"] \notin DOMAIN ease_type_mapping
        THEN /\ pc' = "raised"
             /\ UNCHANGED <<objs, notes, connectors_by_original_index, conn_i>>
        ELSE LET h == notes_by_original_index[entity.data["head"]]
                 t == notes_by_original_index[entity.data["tail"]]
                 sh == notes_by_original_index[entity.data["start"]]
                 st == notes_by_original_index[entity.data["end"]]
             IN /\ objs' = Append(
                     MarkConnectorNotes(objs, h, t, sh,
                        ease_type_mapping[entity.data["ease"]],
                        active_connector_kind_mapping[entity.archetype]),
                     Connector(h, t, sh, st, sh, st))
                /\ notes' = Append(notes, Len(objs) + 1)
                /\ connectors_by_original_index' =
                     DictPut(connectors_by_original_index, i, Len(objs) + 1)
                /\ conn_i' = conn_i + 1
                /\ pc' = "notes_conn"
  /\ UNCHANGED <<raw, bpm_changes, groups_by_original_index,
                 timescale_entities, ts_i, group, changes, raw_change,
                 notes_by_original_index, guides, anchors_by_beat, guide_i,
                 start, end, head, entities>>

\* the third loop's body for one note: lines 251-264
ResolveNote(note, entity) ==
  LET tsg == Get(entity.data, "timeScaleGroup", -1)
      attach_index == Get(entity.data, "attach", -1)
      slide_index == Get(entity.data, "slide", -1)
      n1 == IF tsg \in DOMAIN groups_by_original_index
            THEN [note EXCEPT !.timescale_group = groups_by_original_index[tsg]]
            ELSE note
      n2 == IF attach_index > 0
            THEN [n1 EXCEPT
                    !.attach_head_ref =
                       objs[connectors_by_original_index[attach_index]].head_ref,
                    !.attach_tail_ref =
                       objs[connectors_by_original_index[attach_index]].tail_ref,
                    !.is_attached = TRUE]
            ELSE n1
  IN IF slide_index > 0
     THEN [n2 EXCEPT !.active_head_ref =
                        objs[connectors_by_original_index[slide_index]].head_ref]
     ELSE n2

ResolveRaises(entity) ==
  \/ /\ Get(entity.data, "attach", -1) > 0
     /\ entity.data["attach"] \notin DOMAIN connectors_by_original_index
  \/ /\ Get(entity.data, "slide", -1) > 0
     /\ entity.data["slide"] \notin DOMAIN connectors_by_original_index

SimLine(entity) ==
  [type |-> "SimLine",
   left_ref |-> notes_by_original_index[entity.data["a"]],
   right_ref |-> notes_by_original_index[entity.data["b"]]]

NotesResolve ==
  /\ pc = "notes_conn"
  /\ conn_i = Len(ActiveConnectorIdx)
  /\ LET noteIdx == DOMAIN notes_by_original_index
         sims == enumerate_by_archetype("SimLine")
         RawOf(id) == raw[(CHOOSE i \in noteIdx :
                             notes_by_original_index[i] = id) + 1]
         IsNote(id) == \E i \in noteIdx : notes_by_original_index[i] = id
     IN IF \/ \E i \in noteIdx : ResolveRaises(raw[i + 1])
           \/ \E k \in 1..Len(sims), f \in {"a", "b"} :
                 NoteRefRaises(raw[sims[k] + 1], f)
        THEN /\ pc' = "raised"
             /\ UNCHANGED <<objs, notes>>
        ELSE /\ objs' = [id \in 1..Len(objs) |->
                           IF IsNote(id) THEN ResolveNote(objs[id], RawOf(id))
                           ELSE objs[id]]
                        \o [k \in 1..Len(sims) |-> SimLine(raw[sims[k] + 1])]
             /\ notes' = notes \o [k \in 1..Len(sims) |-> Len(objs) + k]
             /\ pc' = "guides"
  /\ UNCHANGED <<raw, bpm_changes, groups_by_original_index,
                 timescale_entities, ts_i, group, changes, raw_change,
                 notes_by_original_index, connectors_by_original_index,
                 conn_i, guides, anchors_by_beat, guide_i, start, end, head,
                 entities>>

(***************************************************************************)
(* convert_guides.  An optional argument of get_anchor is <<>> for None    *)
(* and <<v>> for the value v.  GuideStart is the loop body up to the first *)
(* get_anchor call, GuideEnd and GuideHead the next two calls, GuideTail   *)
(* the last call and the Connector; GuideDefaults is the defaulting loop   *)
(* and the return.                                                         *)
(***************************************************************************)
AnchorNote(beat, lane, size, timescale_group, segment_kind, segment_alpha, connector_ease) ==
  [type |-> "AnchorNote", beat |-> beat, lane |-> lane, size |-> size,
   direction |-> 0,
   segment_kind |-> IF segment_kind # <<>> THEN segment_kind[1] ELSE -1,
   segment_alpha |-> IF segment_alpha # <<>> THEN segment_alpha[1] ELSE -1,
   connector_ease |-> IF connector_ease # <<>> THEN connector_ease[1] ELSE -1,
   timescale_group |-> timescale_group,
   attach_head_ref |-> 0, attach_tail_ref |-> 0, is_attached |-> FALSE,
   active_head_ref |-> 0, next_ref |-> 0]

\* faulty variant: current == value: the sentinel is not accepted
AcceptsEqualOnly(current, value) == value = <<>> \/ current = value[1]

\* faulty variant: any current value is accepted
AcceptsAny(current, value) == TRUE

\* value is None or current in (value, -1)
Accepts(current, value) == value = <<>> \/ current \in {value[1], -1}

\* the condition of lines 292-299
AnchorMatches(anchor, lane, size, timescale_group, segment_kind, segment_alpha, connector_ease) ==
  /\ anchor.lane = lane
  /\ anchor.size = size
  /\ anchor.timescale_group = timescale_group
  /\ Accepts(anchor.segment_kind, segment_kind)
  /\ Accepts(anchor.segment_alpha, segment_alpha)
  /\ Accepts(anchor.connector_ease, connector_ease)

\* if value is not None and current == -1: current = value
Fill(current, value) ==
  IF value # <<>> /\ current = -1 THEN value[1] ELSE current

\* lines 300-305
FillAnchor(anchor, segment_kind, segment_alpha, connector_ease) ==
  [anchor EXCEPT !.segment_kind = Fill(@, segment_kind),
                 !.segment_alpha = Fill(@, segment_alpha),
                 !.connector_ease = Fill(@, connector_ease)]

\* The call's effect on (objs, anchors_by_beat, entities) and its result.
\* Two references are equal when they refer to the same entity.
get_anchor(os, abb, ents, beat, lane, size, timescale_group, segment_kind, segment_alpha, connector_ease) ==
  LET bucket == IF beat \in DOMAIN abb THEN abb[beat] ELSE <<>>
      hits == {k \in 1..Len(bucket) :
                 AnchorMatches(os[bucket[k]], lane, size, timescale_group,
                               segment_kind, segment_alpha, connector_ease)}
  IN IF hits # {}
     THEN LET a == bucket[CHOOSE k \in hits : \A j \in hits : k <= j]
          IN [objs |-> [os EXCEPT ![a] = FillAnchor(@, segment_kind,
                                            segment_alpha, connector_ease)],
              anchors_by_beat |-> abb, entities |-> ents, anchor |-> a]
     ELSE [objs |-> Append(os, AnchorNote(beat, lane, size, timescale_group,
                                 segment_kind, segment_alpha, connector_ease)),
           anchors_by_beat |-> DictPut(abb, beat, Append(bucket, Len(os) + 1)),
           entities |-> Append(ents, Len(os) + 1),
           anchor |-> Len(os) + 1]

GuideIdx == enumerate_by_archetype("Guide")

CurrentGuide == raw[GuideIdx[guide_i + 1] + 1]

\* lines 323-341 raise KeyError
GuideRaises(entity) ==
  \/ \E p \in {"start", "head", "tail", "end"} :
       \/ \E f \in {"Beat", "Lane", "Size", "TimeScaleGroup"} :
            (p \o f) \notin DOMAIN entity.data
       \/ entity.data[p \o "TimeScaleGroup"] \notin DOMAIN groups_by_original_index
  \/ Get(entity.data, "ease", 0) \notin DOMAIN ease_type_mapping
  \/ Get(entity.data, "fade", 1) \notin DOMAIN fade_alpha_mapping
  \/ Get(entity.data, "color", 0) \notin DOMAIN guide_kind_mapping

\* get_anchor on the control point p of the guide
PointAnchor(entity, p, segment_kind, segment_alpha, connector_ease) ==
  get_anchor(objs, anchors_by_beat, guides,
             entity.data[p \o "Beat"], entity.data[p \o "Lane"],
             entity.data[p \o "Size"],
             groups_by_original_index[entity.data[p \o "TimeScaleGroup"]],
             segment_kind, segment_alpha, connector_ease)

GuideKind(entity) == guide_kind_mapping[Get(entity.data, "color", 0)]

GuideAlpha(entity) == fade_alpha_mapping[Get(entity.data, "fade", 1)]

GuideEase(entity) == ease_type_mapping[Get(entity.data, "ease", 0)]

\* start = get_anchor(..., segment_kind=kind, segment_alpha=start_alpha)
StartAnchor(entity) ==
  PointAnchor(entity, "start", <<GuideKind(entity)>>,
              <<GuideAlpha(entity)[1]>>, <<>>)

\* faulty variant: end = get_anchor(..., segment_kind=kind, segment_alpha=end_alpha)
EndAnchorWithKind(entity) ==
  PointAnchor(entity, "end", <<GuideKind(entity)>>,
              <<GuideAlpha(entity)[2]>>, <<>>)

\* end = get_anchor(..., segment_alpha=end_alpha)
EndAnchor(entity) ==
  PointAnchor(entity, "end", <<>>, <<GuideAlpha(entity)[2]>>, <<>>)

\* head = get_anchor(..., connector_ease=ease)
HeadAnchor(entity) ==
  PointAnchor(entity, "head", <<>>, <<>>, <<GuideEase(entity)>>)

\* tail = get_anchor(...)
TailAnchor(entity) == PointAnchor(entity, "tail", <<>>, <<>>, <<>>)

GuideStart ==
  /\ pc = "guides"
  /\ guide_i < Len(GuideIdx)
  /\ IF GuideRaises(CurrentGuide)
     THEN /\ pc' = "raised"
          /\ UNCHANGED <<objs, anchors_by_beat, guides, start>>
     ELSE LET r == StartAnchor(CurrentGuide)
          IN /\ objs' = r.objs
             /\ anchors_by_beat' = r.anchors_by_beat
             /\ guides' = r.entities
             /\ start' = r.anchor
             /\ pc' = "g_end"
  /\ UNCHANGED <<raw, bpm_changes, groups_by_original_index,
                 timescale_entities, ts_i, group, changes, raw_change, notes,
                 notes_by_original_index, connectors_by_original_index,
                 conn_i, guide_i, end, head, entities>>

GuideEnd ==
  /\ pc = "g_end"
  /\ LET r == EndAnchor(CurrentGuide)
     IN /\ objs' = r.objs
        /\ anchors_by_beat' = r.anchors_by_beat
        /\ guides' = r.entities
        /\ end' = r.anchor
  /\ pc' = "g_head"
  /\ UNCHANGED <<raw, bpm_changes, groups_by_original_index,
                 timescale_entities, ts_i, group, changes, raw_change, notes,
                 notes_by_original_index, connectors_by_original_index,
                 conn_i, guide_i, start, head, entities>>

GuideHead ==
  /\ pc = "g_head"
  /\ LET r == HeadAnchor(CurrentGuide)
     IN /\ objs' = r.objs
        /\ anchors_by_beat' = r.anchors_by_beat
        /\ guides' = r.entities
        /\ head' = r.anchor
  /\ pc' = "g_tail"
  /\ UNCHANGED <<raw, bpm_changes, groups_by_original_index,
                 timescale_entities, ts_i, group, changes, raw_change, notes,
                 notes_by_original_index, connectors_by_original_index,
                 conn_i, guide_i, start, end, entities>>

GuideTail ==
  /\ pc = "g_tail"
  /\ LET r == TailAnchor(CurrentGuide)
     IN /\ objs' = Append(r.objs, Connector(head, r.anchor, start, end, 0, 0))
        /\ anchors_by_beat' = r.anchors_by_beat
        /\ guides' = Append(r.entities, Len(r.objs) + 1)
  /\ guide_i' = guide_i + 1
  /\ pc' = "guides"
  /\ UNCHANGED <<raw, bpm_changes, groups_by_original_index,
                 timescale_entities, ts_i, group, changes, raw_change, notes,
                 notes_by_original_index, connectors_by_original_index,
                 conn_i, start, end, head, entities>>

\* ConnectorKind.GUIDE_NEUTRAL, 1.0, EaseType.LINEAR for what is still -1
DefaultAnchor(anchor) ==
  [anchor EXCEPT
     !.segment_kind = IF @ = -1 THEN guide_kind_mapping[0] ELSE @,
     !.segment_alpha = IF @ = -1 THEN 1 ELSE @,
     !.connector_ease = IF @ = -1 THEN ease_type_mapping[0] ELSE @]

\* the anchors in anchors_by_beat's lists
Anchors(abb) == UNION {{abb[b][k] : k \in 1..Len(abb[b])} : b \in DOMAIN abb}

GuideDefaults ==
  /\ pc = "guides"
  /\ guide_i = Len(GuideIdx)
  /\ objs' = [id \in 1..Len(objs) |->
                IF id \in Anchors(anchors_by_beat) THEN DefaultAnchor(objs[id])
                ELSE objs[id]]
  /\ pc' = "sort"
  /\ UNCHANGED <<raw, bpm_changes, groups_by_original_index,
                 timescale_entities, ts_i, group, changes, raw_change, notes,
                 notes_by_original_index, connectors_by_original_index,
                 conn_i, guides, anchors_by_beat, guide_i, start, end, head,
                 entities>>

(***************************************************************************)
(* convert_pjsekai_extended_level_data after the builders: SortEntities    *)
(* merges and sorts (lines 159-166), LinkSlideNotes is link_slide_notes    *)
(* and the return of the LevelData.                                        *)
(***************************************************************************)
Initialization == [type |-> "Initialization"]

\* faulty variant: getattr(e, "beat", 0)
SortKeyDefaultZero(e) ==
  <<IF e.type = "Initialization" THEN 0 ELSE 1,
    IF "beat" \in DOMAIN e THEN e.beat ELSE 0>>

\* key=lambda e: (not isinstance(e, Initialization), getattr(e, "beat", -1))
SortKey(e) ==
  <<IF e.type = "Initialization" THEN 0 ELSE 1,
    IF "beat" \in DOMAIN e THEN e.beat ELSE -1>>

\* tuple comparison k1 <= k2
KeyLeq(k1, k2) == k1[1] < k2[1] \/ (k1[1] = k2[1] /\ k1[2] <= k2[2])

\* x placed after the last element of the sorted s whose key is <= x's
RECURSIVE InsertSorted(_, _, _)
InsertSorted(os, s, x) ==
  IF s = <<>> THEN <<x>>
  ELSE IF KeyLeq(SortKey(os[s[Len(s)]]), SortKey(os[x])) THEN Append(s, x)
  ELSE Append(InsertSorted(os, SubSeq(s, 1, Len(s) - 1), x), s[Len(s)])

\* sorted(s, key=...): Python's sort is stable
RECURSIVE Sorted(_, _)
Sorted(os, s) ==
  IF s = <<>> THEN <<>>
  ELSE InsertSorted(os, Sorted(os, SubSeq(s, 1, Len(s) - 1)), s[Len(s)])

SortEntities ==
  /\ pc = "sort"
  /\ objs' = Append(objs, Initialization)
  /\ entities' = Sorted(objs', <<Len(objs) + 1>> \o bpm_changes
                               \o timescale_entities \o notes \o guides)
  /\ pc' = "link"
  /\ UNCHANGED <<raw, bpm_changes, groups_by_original_index,
                 timescale_entities, ts_i, group, changes, raw_change, notes,
                 notes_by_original_index, connectors_by_original_index,
                 conn_i, guides, anchors_by_beat, guide_i, start, end, head>>

\* faulty variant: the link is written only where none was written before
LinkOneKeepsFirst(os, e) ==
  IF os[e].type # "Connector" \/ os[os[e].head_ref].next_ref # 0 THEN os
  ELSE [os EXCEPT ![os[e].head_ref].next_ref = os[e].tail_ref]

\* faulty variant: the link is written for active connectors only
LinkOneActiveOnly(os, e) ==
  IF os[e].type # "Connector" \/ os[e].active_head_ref = 0 THEN os
  ELSE [os EXCEPT ![os[e].head_ref].next_ref = os[e].tail_ref]

\* the loop body of link_slide_notes for the entity e
LinkOne(os, e) ==
  IF os[e].type # "Connector" THEN os
  ELSE [os EXCEPT ![os[e].head_ref].next_ref = os[e].tail_ref]

\* link_slide_notes over ents[k..]
RECURSIVE link_slide_notes(_, _, _)
link_slide_notes(os, ents, k) ==
  IF k > Len(ents) THEN os
  ELSE link_slide_notes(LinkOne(os, ents[k]), ents, k + 1)

LinkSlideNotes ==
  /\ pc = "link"
  /\ objs' = link_slide_notes(objs, entities, 1)
  /\ pc' = "done"
  /\ UNCHANGED <<raw, bpm_changes, groups_by_original_index,
                 timescale_entities, ts_i, group, changes, raw_change, notes,
                 notes_by_original_index, connectors_by_original_index,
                 conn_i, guides, anchors_by_beat, guide_i, start, end, head,
                 entities>>

Next ==
  \/ convert_bpm_changes
  \/ TsBeginGroup
  \/ TsStep
  \/ TsDone
  \/ NotesPass1
  \/ NotesConnector
  \/ NotesResolve
  \/ GuideStart
  \/ GuideEnd
  \/ GuideHead
  \/ GuideTail
  \/ GuideDefaults
  \/ SortEntities
  \/ LinkSlideNotes

Spec == Init /\ [][Next]_vars

(***************************************************************************)
(* What the properties below read off a state.                             *)
(***************************************************************************)
Range(f) == {f[x] : x \in DOMAIN f}

\* the conversion has returned its LevelData
Returned == pc = "done"

\* the Connectors convert_notes made (active) and convert_guides made (guide)
ActiveConnectorRefs == Range(connectors_by_original_index)

GuideConnectorRefs == {id \in Range(guides) : objs[id].type = "Connector"}

\* the positions of the final list that hold a Connector whose head is h
ConnectorPositions(h) ==
  {k \in 1..Len(entities) :
     objs[entities[k]].type = "Connector" /\ objs[entities[k]].head_ref = h}

\* the last Connector of the final list whose head is that of connector c
LastWithHeadOf(c) ==
  entities[CHOOSE k \in ConnectorPositions(objs[c].head_ref) :
             \A j \in ConnectorPositions(objs[c].head_ref) : j <= k]

\* the beat the ordering claim gives an entity
ClaimedBeat(e) ==
  IF e.type \in {"TimescaleGroup", "Connector", "SimLine"} THEN -1 ELSE e.beat

(***************************************************************************)
(* C1: whenever the conversion returns, the Initialization entity is at    *)
(* position 0 of the output and every later adjacent pair is in            *)
(* non-decreasing beat order, an entity without a beat counting as -1.     *)
(***************************************************************************)
C1_OutputOrdered ==
  Returned =>
    /\ Len(entities) >= 1
    /\ objs[entities[1]].type = "Initialization"
    /\ \A k \in 2..Len(entities) :
         objs[entities[k]].type # "Initialization"
    /\ \A k \in 2..(Len(entities) - 1) :
         ClaimedBeat(objs[entities[k]]) <= ClaimedBeat(objs[entities[k + 1]])

\* an output in which the sort moved a later-built entity before an
\* earlier-built one, and in which a timed entity precedes an untimed one
C1_Witness ==
  /\ Returned
  /\ \E j, k \in 2..Len(entities) :
       /\ j < k
       /\ entities[j] > entities[k]
       /\ ClaimedBeat(objs[entities[j]]) < ClaimedBeat(objs[entities[k]])
  /\ \E j, k \in 2..Len(entities) :
       /\ j < k
       /\ ClaimedBeat(objs[entities[j]]) < -1
       /\ objs[entities[k]].type = "Connector"

(***************************************************************************)
(* C2 (as stated): after the linking pass, the head note of every active   *)
(* connector has next_ref resolving to that connector's tail note,         *)
(* whatever notes the active connectors share.                             *)
(***************************************************************************)
C2_EveryActiveHeadLinked ==
  Returned =>
    \A c \in ActiveConnectorRefs :
      objs[objs[c].head_ref].next_ref = objs[c].tail_ref

(***************************************************************************)
(* C2 (amended): after the linking pass, the head note of every active     *)
(* connector has next_ref resolving to the tail note of the last Connector *)
(* of the final list whose head is that note; so the head of an active     *)
(* connector that no later connector shares resolves to its own tail.      *)
(***************************************************************************)
C2_LastConnectorLinksHead ==
  Returned =>
    \A c \in ActiveConnectorRefs :
      /\ objs[objs[c].head_ref].next_ref = objs[LastWithHeadOf(c)].tail_ref
      /\ LastWithHeadOf(c) \in ActiveConnectorRefs

\* two active connectors on one head note with different tails, linked
C2_Witness ==
  /\ Returned
  /\ \E c, d \in ActiveConnectorRefs :
       /\ c < d
       /\ objs[c].head_ref = objs[d].head_ref
       /\ objs[c].tail_ref # objs[d].tail_ref
       /\ objs[objs[d].head_ref].next_ref = objs[d].tail_ref

(***************************************************************************)
(* References in the raw list, as the integrity claims read them.          *)
(***************************************************************************)
\* i is the position of an entity whose archetype is in archs
NamesKind(i, archs) ==
  i \in 0..(Len(raw) - 1) /\ raw[i + 1].archetype \in archs

\* the raw positions of the chain from position p on, following next > 0
RECURSIVE RawChain(_, _)
RawChain(p, fuel) ==
  IF fuel = 0 \/ p \notin 0..(Len(raw) - 1) THEN <<>>
  ELSE <<p>> \o (IF Get(raw[p + 1].data, "next", 0) > 0
                 THEN RawChain(raw[p + 1].data["next"], fuel - 1) ELSE <<>>)

RawEntities(archs) == {e \in Range(raw) : e.archetype \in archs}

\* some index field that must name an entity names none of the required kind
BadReference ==
  \/ \E e \in RawEntities({"TimeScaleGroup"}) :
       \/ ~ NamesKind(e.data["first"], {"TimeScaleChange"})
       \/ \E p \in Range(RawChain(e.data["first"], Len(raw))) :
            /\ Get(raw[p + 1].data, "next", 0) > 0
            /\ ~ NamesKind(raw[p + 1].data["next"], {"TimeScaleChange"})
  \/ \E e \in RawEntities(DOMAIN active_connector_kind_mapping) :
       \E k \in {"head", "tail", "start", "end"} :
         ~ NamesKind(e.data[k], DOMAIN note_type_mapping)
  \/ \E e \in RawEntities({"SimLine"}) :
       \E k \in {"a", "b"} : ~ NamesKind(e.data[k], DOMAIN note_type_mapping)
  \/ \E e \in RawEntities(DOMAIN note_type_mapping) :
       \E k \in {"attach", "slide"} :
         /\ Get(e.data, k, -1) > 0
         /\ ~ NamesKind(e.data[k], DOMAIN active_connector_kind_mapping)

(***************************************************************************)
(* C5: when an index field that must name an entity names none of the      *)
(* required kind, the conversion raises: it never returns a LevelData.     *)
(***************************************************************************)
C5_BadReferenceNeverReturns == BadReference => ~ Returned

(***************************************************************************)
(* C10: the walk along a group's next fields ends after a number of steps  *)
(* bounded by the input size: it creates at most one change per raw        *)
(* entity.  Stated for the inputs whose every reference names an entity of *)
(* the required kind, where no integrity error ends the walk.              *)
(***************************************************************************)
C10_WalkBoundedByInput == ~ BadReference => Len(changes) <= Len(raw)

(***************************************************************************)
(* C6: for every emitted TimescaleGroup, following first_ref and then      *)
(* next_ref visits exactly the changes created for that group, each once,  *)
(* in raw-chain order, and ends at a change without next_ref; each visited *)
(* change refers back to the group, and no change is reached from two      *)
(* groups.                                                                 *)
(***************************************************************************)
\* the entities reached from ref along next_ref, at most fuel of them
RECURSIVE FollowNext(_, _)
FollowNext(ref, fuel) ==
  IF ref = 0 \/ fuel = 0 THEN <<>>
  ELSE <<ref>> \o FollowNext(objs[ref].next_ref, fuel - 1)

EmittedGroups ==
  {id \in Range(timescale_entities) : objs[id].type = "TimescaleGroup"}

\* the raw position of the group entity that g was built from
RawIndexOf(g) ==
  CHOOSE i \in DOMAIN groups_by_original_index :
    groups_by_original_index[i] = g

\* the changes emitted right after g in timescale_entities
ChangesOf(g) == {id \in 1..Len(objs) :
                   objs[id].type = "TimescaleChange"
                   /\ objs[id].timescale_group = g}

C6_ChainIntegrity ==
  \A g \in EmittedGroups :
    LET walk == FollowNext(objs[g].first_ref, Len(objs) + 1)
        first == raw[RawIndexOf(g) + 1].data["first"]
        chain == RawChain(ListPos(first, Len(raw)), Len(raw) + 1)
    IN /\ Len(walk) <= Len(objs)
       /\ Range(walk) = ChangesOf(g)
       /\ Cardinality(Range(walk)) = Len(walk)
       /\ Len(walk) = Len(chain)
       /\ \A k \in 1..Len(walk) :
            /\ objs[walk[k]].type = "TimescaleChange"
            /\ objs[walk[k]].beat = raw[chain[k] + 1].data["#BEAT"]
            /\ objs[walk[k]].timescale_group = g
       /\ \A h \in EmittedGroups \ {g} :
            Range(walk) \cap Range(FollowNext(objs[h].first_ref, Len(objs) + 1))
              = {}

\* a returned conversion with two groups whose raw chains pass through the
\* same change record, each group walking to a change of its own
C6_Witness ==
  /\ Returned
  /\ \E g, h \in EmittedGroups :
       /\ g # h
       /\ ListPos(raw[RawIndexOf(g) + 1].data["first"], Len(raw))
            = ListPos(raw[RawIndexOf(h) + 1].data["first"], Len(raw))
       /\ objs[g].first_ref # 0
       /\ objs[h].first_ref # 0
       /\ objs[g].first_ref # objs[h].first_ref

(***************************************************************************)
(* Guides, control points and anchors, as the guide claims read them.      *)
(***************************************************************************)
\* convert_guides has returned
GuidesBuilt == pc \in {"sort", "link", "done"}

GuideAnchors == {id \in Range(guides) : objs[id].type = "AnchorNote"}

PointNames == {"start", "end", "head", "tail"}

\* the key <<beat, lane, size, timescale group index>> of a control point
PointKey(e, p) ==
  <<e.data[p \o "Beat"], e.data[p \o "Lane"], e.data[p \o "Size"],
    e.data[p \o "TimeScaleGroup"]>>

\* the attribute values a control point supplies (<<>>: none)
SuppliedKind(e, p) == IF p = "start" THEN <<GuideKind(e)>> ELSE <<>>

SuppliedAlpha(e, p) ==
  CASE p = "start" -> <<GuideAlpha(e)[1]>>
    [] p = "end" -> <<GuideAlpha(e)[2]>>
    [] OTHER -> <<>>

SuppliedEase(e, p) == IF p = "head" THEN <<GuideEase(e)>> ELSE <<>>

RawGuides == RawEntities({"Guide"})

\* the values supplied at key K over all guides, per attribute
KindsAt(K) ==
  {SuppliedKind(e, p)[1] : <<e, p>> \in
     {x \in RawGuides \X PointNames :
        PointKey(x[1], x[2]) = K /\ SuppliedKind(x[1], x[2]) # <<>>}}

AlphasAt(K) ==
  {SuppliedAlpha(e, p)[1] : <<e, p>> \in
     {x \in RawGuides \X PointNames :
        PointKey(x[1], x[2]) = K /\ SuppliedAlpha(x[1], x[2]) # <<>>}}

EasesAt(K) ==
  {SuppliedEase(e, p)[1] : <<e, p>> \in
     {x \in RawGuides \X PointNames :
        PointKey(x[1], x[2]) = K /\ SuppliedEase(x[1], x[2]) # <<>>}}

DeclaredKeys == {PointKey(e, p) : e \in RawGuides, p \in PointNames}

\* all control points declared at K are mutually compatible
Compatible(K) ==
  /\ Cardinality(KindsAt(K)) <= 1
  /\ Cardinality(AlphasAt(K)) <= 1
  /\ Cardinality(EasesAt(K)) <= 1

\* the anchor a lies at key K
AnchorAt(a, K) ==
  /\ objs[a].beat = K[1]
  /\ objs[a].lane = K[2]
  /\ objs[a].size = K[3]
  /\ K[4] \in DOMAIN groups_by_original_index
  /\ objs[a].timescale_group = groups_by_original_index[K[4]]

AnchorsAt(K) == {a \in GuideAnchors : AnchorAt(a, K)}

(***************************************************************************)
(* C3: if all control points declared at one key are mutually compatible,  *)
(* convert_guides' output has exactly one AnchorNote at that key and it    *)
(* holds every attribute value supplied there, whatever the order of the   *)
(* guides and of their points.                                             *)
(***************************************************************************)
C3_CompatiblePointsShareOneAnchor ==
  GuidesBuilt =>
    \A K \in DeclaredKeys :
      Compatible(K) =>
        /\ Cardinality(AnchorsAt(K)) = 1
        /\ \A a \in AnchorsAt(K) :
             /\ \A v \in KindsAt(K) : objs[a].segment_kind = v
             /\ \A v \in AlphasAt(K) : objs[a].segment_alpha = v
             /\ \A v \in EasesAt(K) : objs[a].connector_ease = v

\* two guides with compatible points at one key that between them supply all
\* three attributes there, the second guide supplying the segment attributes
\* after the first supplied the ease
C3_Witness ==
  /\ GuidesBuilt
  /\ Len(GuideIdx) = 2
  /\ \E K \in DeclaredKeys :
       /\ Compatible(K)
       /\ KindsAt(K) # {} /\ AlphasAt(K) # {} /\ EasesAt(K) # {}
       /\ PointKey(raw[GuideIdx[1] + 1], "head") = K
       /\ PointKey(raw[GuideIdx[1] + 1], "start") # K
       /\ PointKey(raw[GuideIdx[2] + 1], "start") = K
       /\ Cardinality(AnchorsAt(K)) = 1

(***************************************************************************)
(* C4: Scenario C.  One Guide whose start and head control points both lie *)
(* at (beat 2, lane 0, size 1, group -1) converts without error to exactly *)
(* one anchor at that key, which carries the segment attributes of start   *)
(* and the ease of head.                                                   *)
(***************************************************************************)
IsScenarioC ==
  /\ Len(raw) = 1
  /\ raw[1].archetype = "Guide"
  /\ PointKey(raw[1], "start") = <<2, 0, 1, -1>>
  /\ PointKey(raw[1], "head") = <<2, 0, 1, -1>>
  /\ PointKey(raw[1], "end") # <<2, 0, 1, -1>>
  /\ PointKey(raw[1], "tail") # <<2, 0, 1, -1>>

C4_ScenarioC ==
  IsScenarioC =>
    /\ pc # "raised"
    /\ Returned =>
         LET here == {a \in GuideAnchors :
                        /\ objs[a].beat = 2
                        /\ objs[a].lane = 0
                        /\ objs[a].size = 1}
         IN /\ Cardinality(here) = 1
            /\ \A a \in here :
                 /\ objs[a].segment_kind = GuideKind(raw[1])
                 /\ objs[a].segment_alpha = GuideAlpha(raw[1])[1]
                 /\ objs[a].connector_ease = GuideEase(raw[1])

(***************************************************************************)
(* The get_anchor call a step makes, for the step properties of C7.        *)
(***************************************************************************)
\* the next step is a get_anchor call (GuideStart does not raise)
AtGetAnchor ==
  /\ pc \in {"guides", "g_end", "g_head", "g_tail"}
  /\ guide_i < Len(GuideIdx)
  /\ pc = "guides" => ~ GuideRaises(CurrentGuide)

\* the control point that call is for
CallPoint ==
  CASE pc = "guides" -> "start" [] pc = "g_end" -> "end"
    [] pc = "g_head" -> "head" [] OTHER -> "tail"

\* the point supplies a value different from the one already set on anchor a
Differs(current, value) == value # <<>> /\ current # -1 /\ current # value[1]

ConflictsWith(a, e, p) ==
  \/ Differs(objs[a].segment_kind, SuppliedKind(e, p))
  \/ Differs(objs[a].segment_alpha, SuppliedAlpha(e, p))
  \/ Differs(objs[a].connector_ease, SuppliedEase(e, p))

\* the anchors that exist with the key of the call's point
SameKeyAnchors == AnchorsAt(PointKey(CurrentGuide, CallPoint))

\* the step leaves every existing anchor as it is and appends a new one
AppendsNewAnchor ==
  /\ \A a \in GuideAnchors : objs'[a] = objs[a]
  /\ \E id \in (1..Len(objs')) \ (1..Len(objs)) :
       /\ objs'[id].type = "AnchorNote"
       /\ id \in Range(guides') \ Range(guides)

\* no step changes an attribute of an anchor that holds a non-sentinel value
SetAttributesStay ==
  \A a \in GuideAnchors :
    /\ objs[a].segment_kind # -1
         => objs'[a].segment_kind = objs[a].segment_kind
    /\ objs[a].segment_alpha # -1
         => objs'[a].segment_alpha = objs[a].segment_alpha
    /\ objs[a].connector_ease # -1
         => objs'[a].connector_ease = objs[a].connector_ease

(***************************************************************************)
(* C7 (as stated): an attribute of an anchor, once set, is never changed;  *)
(* and a control point with the key of an existing anchor that supplies a  *)
(* different value for an attribute already set on it leaves every         *)
(* existing anchor unchanged and appends a new AnchorNote.                 *)
(***************************************************************************)
C7_ConflictAlwaysAppends ==
  [][/\ SetAttributesStay
     /\ (AtGetAnchor /\ \E a \in SameKeyAnchors :
                          ConflictsWith(a, CurrentGuide, CallPoint))
          => AppendsNewAnchor]_vars

(***************************************************************************)
(* C7 (amended): an attribute of an anchor, once set, is never changed;    *)
(* a control point that supplies, for every existing anchor with its key,  *)
(* a different value for an attribute already set on that anchor leaves    *)
(* every existing anchor unchanged and appends a new AnchorNote; when some *)
(* anchor with its key has no such attribute, no anchor is appended (the   *)
(* first such anchor is reused), though other anchors at the key conflict. *)
(***************************************************************************)
C7_ConflictWithAllAppends ==
  [][/\ SetAttributesStay
     /\ (AtGetAnchor /\ SameKeyAnchors # {}
           /\ \A a \in SameKeyAnchors :
                ConflictsWith(a, CurrentGuide, CallPoint))
          => AppendsNewAnchor
     /\ (AtGetAnchor /\ \E a \in SameKeyAnchors :
                          ~ ConflictsWith(a, CurrentGuide, CallPoint))
          => GuideAnchors' = GuideAnchors]_vars

\* two distinct anchors stand at one key with different values of one
\* attribute: a conflicting control point was given a new anchor
C7_Witness ==
  \E a, b \in GuideAnchors :
    /\ a < b
    /\ objs[a].beat = objs[b].beat
    /\ objs[a].lane = objs[b].lane
    /\ objs[a].size = objs[b].size
    /\ objs[a].timescale_group = objs[b].timescale_group
    /\ objs[a].segment_kind # -1
    /\ objs[b].segment_kind # -1
    /\ objs[a].segment_kind # objs[b].segment_kind

(***************************************************************************)
(* C8 (as stated): after the conversion, link_slide_notes has not written  *)
(* next_ref on the head anchor of any guide connector.                     *)
(***************************************************************************)
C8_GuideHeadsNotLinked ==
  Returned =>
    \A c \in GuideConnectorRefs : objs[objs[c].head_ref].next_ref = 0

(***************************************************************************)
(* C8 (amended): link_slide_notes treats a guide connector as any other    *)
(* Connector: after the conversion the head anchor of every guide          *)
(* connector has next_ref resolving to the tail anchor of the last guide   *)
(* connector of the final list that has this head anchor.                  *)
(***************************************************************************)
C8_GuideHeadsLinked ==
  Returned =>
    \A c \in GuideConnectorRefs :
      /\ LastWithHeadOf(c) \in GuideConnectorRefs
      /\ objs[objs[c].head_ref].next_ref = objs[LastWithHeadOf(c)].tail_ref
      /\ objs[objs[c].head_ref].next_ref # 0

\* a guide connector between two different anchors, its head linked to its tail
C8_Witness ==
  /\ Returned
  /\ \E c \in GuideConnectorRefs :
       /\ objs[c].head_ref # objs[c].tail_ref
       /\ objs[objs[c].head_ref].next_ref = objs[c].tail_ref

(***************************************************************************)
(* C9: the guides' own start and end anchors.                              *)
(***************************************************************************)
\* the Connectors of convert_guides in the order built: one per guide
GuideConnectorSeq == SelectSeq(guides, LAMBDA id : objs[id].type = "Connector")

\* no connector of another guide refers to anchor a
OnlyOfGuide(a, c) ==
  \A d \in GuideConnectorRefs \ {c} :
    a \notin {objs[d].head_ref, objs[d].tail_ref, objs[d].segment_head_ref,
              objs[d].segment_tail_ref}

\* the fade table of the claim: fade mode -> (start alpha, end alpha)
ClaimedFade(f) == CASE f = 0 -> <<1, 0>> [] f = 1 -> <<1, 1>> [] f = 2 -> <<0, 1>>

\* the kind the claim maps a color to: the color's entry of the kind table
ClaimedKind(color) == guide_kind_mapping[color]

(***************************************************************************)
(* C9 (as stated): when no other guide contributes to them, a guide's      *)
(* start anchor and end anchor both have segment_kind equal to the kind of *)
(* the guide's color and segment_alpha equal to their endpoint of the fade *)
(* table.                                                                  *)
(***************************************************************************)
C9_StartAndEndCarryKind ==
  GuidesBuilt =>
    \A k \in 1..Len(GuideIdx) :
      LET e == raw[GuideIdx[k] + 1]
          c == GuideConnectorSeq[k]
          sa == objs[c].segment_head_ref
          ea == objs[c].segment_tail_ref
      IN (OnlyOfGuide(sa, c) /\ OnlyOfGuide(ea, c)) =>
           /\ objs[sa].segment_kind = ClaimedKind(Get(e.data, "color", 0))
           /\ objs[sa].segment_alpha = ClaimedFade(Get(e.data, "fade", 1))[1]
           /\ objs[ea].segment_kind = ClaimedKind(Get(e.data, "color", 0))
           /\ objs[ea].segment_alpha = ClaimedFade(Get(e.data, "fade", 1))[2]

(***************************************************************************)
(* C9 (amended): when no other guide contributes to them, a guide's start  *)
(* anchor has segment_kind equal to the kind of the guide's color and      *)
(* segment_alpha equal to the first component of its fade entry, and its   *)
(* end anchor has segment_alpha equal to the second component; the guide   *)
(* gives the end anchor no segment_kind, which is the guide's kind only    *)
(* when the end anchor is the start anchor and GUIDE_NEUTRAL otherwise.    *)
(***************************************************************************)
C9_StartCarriesKindEndAlpha ==
  GuidesBuilt =>
    \A k \in 1..Len(GuideIdx) :
      LET e == raw[GuideIdx[k] + 1]
          c == GuideConnectorSeq[k]
          sa == objs[c].segment_head_ref
          ea == objs[c].segment_tail_ref
      IN (OnlyOfGuide(sa, c) /\ OnlyOfGuide(ea, c)) =>
           /\ objs[sa].segment_kind = ClaimedKind(Get(e.data, "color", 0))
           /\ objs[sa].segment_alpha = ClaimedFade(Get(e.data, "fade", 1))[1]
           /\ objs[ea].segment_alpha = ClaimedFade(Get(e.data, "fade", 1))[2]
           /\ objs[ea].segment_kind =
                IF ea = sa THEN ClaimedKind(Get(e.data, "color", 0))
                ELSE ClaimedKind(0)

\* a guide of a color other than neutral whose end anchor is not its start
\* anchor, no other guide contributing to either
C9_Witness ==
  /\ Returned
  /\ \E k \in 1..Len(GuideIdx) :
       LET e == raw[GuideIdx[k] + 1]
           c == GuideConnectorSeq[k]
       IN /\ Get(e.data, "color", 0) # 0
          /\ objs[c].segment_head_ref # objs[c].segment_tail_ref
          /\ OnlyOfGuide(objs[c].segment_head_ref, c)
          /\ OnlyOfGuide(objs[c].segment_tail_ref, c)

====
